---- MODULE Spec2Model ----
(***************************************************************************)
(* Model of scripts/deploy_token.py: the Cairo ByteArray encoder, the      *)
(* constructor-calldata builder, the UDC envelope and the control flow of  *)
(* main() around them.                                                     *)
(*                                                                         *)
(* A Python str is a sequence of Unicode code points (naturals); a bytes   *)
(* object is a sequence of naturals in 0..255; a token of the calldata is  *)
(* a TLA+ string.  Optional[str] is a sequence of length 0 (None) or 1.    *)
(***************************************************************************)
EXTENDS Integers, Sequences, FiniteSets

VARIABLES
    args,                 \* the parsed command line (argparse namespace)
    config,               \* the DeploymentConfig built by main()
    pc,                   \* position of main()
    name_encoded,         \* build_constructor_calldata: encode_bytearray(config.name)
    symbol_encoded,       \* build_constructor_calldata: encode_bytearray(config.symbol)
    base_uri_encoded,     \* build_constructor_calldata: encode_bytearray(config.base_uri)
    constructor_calldata, \* deploy_via_udc: the list returned by build_constructor_calldata
    calldata_len,         \* deploy_via_udc: the length returned by build_constructor_calldata
    udc_calldata,         \* deploy_via_udc: arguments of deployContract
    cmd,                  \* deploy_via_udc: the sncast command line
    deploy_result,        \* main: (success, tx_hash, error) returned by deploy_via_udc
    contract_address,     \* main: result of get_contract_address_from_tx
    deployment_file       \* contents of LATEST_DEPLOYMENT.txt (<<>> while not written)

vars == <<args, config, pc, name_encoded, symbol_encoded, base_uri_encoded,
          constructor_calldata, calldata_len, udc_calldata, cmd,
          deploy_result, contract_address, deployment_file>>

(***************************************************************************)
(* Bounds and input sets                                                   *)
(***************************************************************************)
MaxLen == 64

\* Optional[str]
None == <<>>
Some(a) == <<a>>

\* code points: NUL, 'A', 'z', U+00E9 (2 bytes), U+20AC (3 bytes), U+1F600 (4 bytes)
AsciiCycle == <<0, 65, 122>>
MixedCycle == <<233, 128512, 0, 8364, 65>>

TextOf(n, p) ==
    [k \in 1..n |->
        CASE p = 1 -> AsciiCycle[((k - 1) % 3) + 1]
          [] p = 2 -> 233
          [] OTHER -> MixedCycle[((k - 1) % 5) + 1]]

Hello == <<104, 101, 108, 108, 111>>

NameTexts == {TextOf(n, p) : n \in 0..MaxLen, p \in 1..3} \cup {Hello}

\* texts of 0, 30, 31, 32 and 62 bytes
BoundaryTexts == {TextOf(0, 1), TextOf(30, 1), TextOf(31, 1), TextOf(32, 1), TextOf(31, 2)}

DefaultRoyaltyReceiver == "0x127fd5f1fe78a71f8bcd1fec63e3fe2f0486b6ecd5c86a0466c3a21fa5cfcec"
DefaultGameRegistry == "0x00348dafbd271cc82bfc57e3edd3a7b3163008f53c586e31d822862b72e1a663"
DefaultClassHash == "0x075137b5c45312610d7cb6d43982e5fd5bd0df6c0b1e51518ced64a91f125e85"
DefaultUdcAddress == "0x041a78e741e5af2fec34b695679bc6891742439f7afb8484ecd7766661ad02bf"
RelayerAddress == "0x0abc"
TxHash == "0x07f1"
DeployedAddress == "0x0dead"

(***************************************************************************)
(* Library conversions used by the script                                  *)
(***************************************************************************)
\* str.encode('utf-8') of one code point
utf8_char(cp) ==
    IF cp < 128 THEN <<cp>>
    ELSE IF cp < 2048 THEN <<192 + (cp \div 64), 128 + (cp % 64)>>
    ELSE IF cp < 65536 THEN
        <<224 + (cp \div 4096), 128 + ((cp \div 64) % 64), 128 + (cp % 64)>>
    ELSE <<240 + (cp \div 262144), 128 + ((cp \div 4096) % 64),
           128 + ((cp \div 64) % 64), 128 + (cp % 64)>>

RECURSIVE utf8_encode(_)
utf8_encode(s) ==
    IF s = <<>> THEN <<>>
    ELSE utf8_char(Head(s)) \o utf8_encode(Tail(s))

HexDigits == <<"0", "1", "2", "3", "4", "5", "6", "7",
               "8", "9", "a", "b", "c", "d", "e", "f">>

\* bytes.hex(): two lowercase hexadecimal digits per byte
RECURSIVE bytes_hex(_)
bytes_hex(b) ==
    IF b = <<>> THEN ""
    ELSE HexDigits[(Head(b) \div 16) + 1] \o HexDigits[(Head(b) % 16) + 1]
         \o bytes_hex(Tail(b))

\* str(int): decimal digits, with a sign for negative numbers
RECURSIVE str_nat(_)
str_nat(n) ==
    IF n < 10 THEN HexDigits[n + 1]
    ELSE str_nat(n \div 10) \o HexDigits[(n % 10) + 1]

str(n) == IF n < 0 THEN "-" \o str_nat(0 - n) ELSE str_nat(n)

\* variant: only None is falsy
truthy_is_not_none(o) == o # None

\* truth value of an Optional[str]: None and "" are falsy
truthy(o) == o # None /\ o[1] # ""

(***************************************************************************)
(* encode_bytearray                                                        *)
(***************************************************************************)
\* bytes per full word of a ByteArray
WordSize == 31

\* variant: each full word is sliced one byte too late
encode_bytearray_shifted_words(s) ==
    LET s_bytes == utf8_encode(s)
        num_full_words == Len(s_bytes) \div WordSize
        pending_len == Len(s_bytes) % WordSize
        full_words ==
            [i \in 1..num_full_words |->
                "0x" \o bytes_hex(SubSeq(s_bytes, (i - 1) * WordSize + 2,
                                         IF i * WordSize + 1 > Len(s_bytes)
                                         THEN Len(s_bytes) ELSE i * WordSize + 1))]
        pending ==
            IF pending_len > 0
            THEN <<"0x" \o bytes_hex(SubSeq(s_bytes, num_full_words * WordSize + 1,
                                            Len(s_bytes))),
                   str(pending_len)>>
            ELSE <<"0", "0">>
    IN  <<str(num_full_words)>> \o full_words \o pending

\* variant: nothing is appended when there are no leftover bytes
encode_bytearray_no_empty_pending(s) ==
    LET s_bytes == utf8_encode(s)
        num_full_words == Len(s_bytes) \div WordSize
        pending_len == Len(s_bytes) % WordSize
        full_words ==
            [i \in 1..num_full_words |->
                "0x" \o bytes_hex(SubSeq(s_bytes, (i - 1) * WordSize + 1, i * WordSize))]
        pending ==
            IF pending_len > 0
            THEN <<"0x" \o bytes_hex(SubSeq(s_bytes, num_full_words * WordSize + 1,
                                            Len(s_bytes))),
                   str(pending_len)>>
            ELSE <<>>
    IN  <<str(num_full_words)>> \o full_words \o pending

\* variant: the pending word is always '0x' + hex, also of no bytes
encode_bytearray_unconditional_hex(s) ==
    LET s_bytes == utf8_encode(s)
        num_full_words == Len(s_bytes) \div WordSize
        pending_len == Len(s_bytes) % WordSize
        full_words ==
            [i \in 1..num_full_words |->
                "0x" \o bytes_hex(SubSeq(s_bytes, (i - 1) * WordSize + 1, i * WordSize))]
        pending ==
            <<"0x" \o bytes_hex(SubSeq(s_bytes, num_full_words * WordSize + 1,
                                       Len(s_bytes))),
              str(pending_len)>>
    IN  <<str(num_full_words)>> \o full_words \o pending

\* variant: the last token is the length of the whole text
encode_bytearray_total_length(s) ==
    LET s_bytes == utf8_encode(s)
        num_full_words == Len(s_bytes) \div WordSize
        pending_len == Len(s_bytes) % WordSize
        full_words ==
            [i \in 1..num_full_words |->
                "0x" \o bytes_hex(SubSeq(s_bytes, (i - 1) * WordSize + 1, i * WordSize))]
        pending ==
            IF pending_len > 0
            THEN <<"0x" \o bytes_hex(SubSeq(s_bytes, num_full_words * WordSize + 1,
                                            Len(s_bytes))),
                   str(Len(s_bytes))>>
            ELSE <<"0", "0">>
    IN  <<str(num_full_words)>> \o full_words \o pending

encode_bytearray(s) ==
    LET s_bytes == utf8_encode(s)
        num_full_words == Len(s_bytes) \div WordSize
        pending_len == Len(s_bytes) % WordSize
        full_words ==
            [i \in 1..num_full_words |->
                "0x" \o bytes_hex(SubSeq(s_bytes, (i - 1) * WordSize + 1, i * WordSize))]
        pending ==
            IF pending_len > 0
            THEN <<"0x" \o bytes_hex(SubSeq(s_bytes, num_full_words * WordSize + 1,
                                            Len(s_bytes))),
                   str(pending_len)>>
            ELSE <<"0", "0">>
    IN  <<str(num_full_words)>> \o full_words \o pending

(***************************************************************************)
(* build_constructor_calldata                                              *)
(***************************************************************************)
\* variant: the discriminants the other way round
option_calldata_inverted(address) ==
    IF truthy(address) THEN <<"1", address[1]>> ELSE <<"0">>

\* Option<ContractAddress>: '0' and the address when truthy, '1' otherwise
option_calldata(address) ==
    IF truthy(address) THEN <<"0", address[1]>> ELSE <<"1">>

\* variant: the symbol is appended before the name
build_constructor_calldata_symbol_first(c) ==
    LET n_enc == encode_bytearray(c.name)
        s_enc == encode_bytearray(c.symbol)
        b_enc == encode_bytearray(c.base_uri)
        calldata ==
            s_enc \o n_enc \o b_enc
            \o <<c.royalty_receiver>>
            \o <<str(c.royalty_fraction)>>
            \o option_calldata(c.game_registry_address)
            \o option_calldata(c.event_relayer_address)
    IN  [name_encoded |-> n_enc, symbol_encoded |-> s_enc, base_uri_encoded |-> b_enc,
         len |-> Len(calldata), calldata |-> calldata]

\* variant: the length is kept by hand, one word per optional field
build_constructor_calldata_own_count(c) ==
    LET n_enc == encode_bytearray(c.name)
        s_enc == encode_bytearray(c.symbol)
        b_enc == encode_bytearray(c.base_uri)
        calldata ==
            n_enc \o s_enc \o b_enc
            \o <<c.royalty_receiver>>
            \o <<str(c.royalty_fraction)>>
            \o option_calldata(c.game_registry_address)
            \o option_calldata(c.event_relayer_address)
    IN  [name_encoded |-> n_enc, symbol_encoded |-> s_enc, base_uri_encoded |-> b_enc,
         len |-> Len(n_enc) + Len(s_enc) + Len(b_enc) + 4, calldata |-> calldata]

\* the locals name_encoded, symbol_encoded, base_uri_encoded and the returned
\* pair (len(calldata), calldata)
build_constructor_calldata(c) ==
    LET n_enc == encode_bytearray(c.name)
        s_enc == encode_bytearray(c.symbol)
        b_enc == encode_bytearray(c.base_uri)
        calldata ==
            n_enc \o s_enc \o b_enc
            \o <<c.royalty_receiver>>
            \o <<str(c.royalty_fraction)>>
            \o option_calldata(c.game_registry_address)
            \o option_calldata(c.event_relayer_address)
    IN  [name_encoded |-> n_enc, symbol_encoded |-> s_enc, base_uri_encoded |-> b_enc,
         len |-> Len(calldata), calldata |-> calldata]

(***************************************************************************)
(* deploy_via_udc                                                          *)
(***************************************************************************)
\* variant: the calldata length is left out of the header
build_udc_calldata_no_length(c, len, calldata) ==
    <<c.class_hash, str(c.salt), IF c.unique THEN "1" ELSE "0">> \o calldata

\* variant: the uniqueness flag the other way round
build_udc_calldata_flag_inverted(c, len, calldata) ==
    <<c.class_hash, str(c.salt), IF c.unique THEN "0" ELSE "1", str(len)>> \o calldata

\* deployContract(classHash, salt, unique, calldata_len, ...calldata)
build_udc_calldata(c, len, calldata) ==
    <<c.class_hash, str(c.salt), IF c.unique THEN "1" ELSE "0", str(len)>> \o calldata

build_cmd(c, udc) ==
    <<"sncast", "--profile", c.profile, "invoke",
      "--contract-address", c.udc_address,
      "--function", "deployContract", "--calldata">> \o udc

\* what the sncast subprocess can do: print a transaction hash, print no
\* transaction hash, or exit with a non-zero status
SncastOutcomes == {"hash", "nohash", "error"}

deploy_outcome(outcome) ==
    CASE outcome = "hash" -> <<TRUE, TxHash, "">>
      [] outcome = "nohash" -> <<FALSE, "", "Could not find transaction hash in output">>
      [] OTHER -> <<FALSE, "", "sncast failed">>

DeployViaUdc ==
    /\ pc = "main"
    /\ \E outcome \in SncastOutcomes :
        LET built == build_constructor_calldata(config)
            udc == build_udc_calldata(config, built.len, built.calldata)
        IN  /\ name_encoded' = built.name_encoded
            /\ symbol_encoded' = built.symbol_encoded
            /\ base_uri_encoded' = built.base_uri_encoded
            /\ calldata_len' = built.len
            /\ constructor_calldata' = built.calldata
            /\ udc_calldata' = udc
            /\ cmd' = build_cmd(config, udc)
            /\ deploy_result' = deploy_outcome(outcome)
    /\ pc' = "deployed"
    /\ UNCHANGED <<args, config, contract_address, deployment_file>>

(***************************************************************************)
(* main                                                                    *)
(***************************************************************************)
\* dataclass DeploymentConfig as main() fills it from the parsed arguments
DeploymentConfig(a) ==
    [name |-> a.name,
     symbol |-> a.symbol,
     base_uri |-> a.base_uri,
     royalty_receiver |-> a.royalty_receiver,
     royalty_fraction |-> a.royalty_fraction,
     game_registry_address |-> IF a.game_registry # "" THEN Some(a.game_registry) ELSE None,
     event_relayer_address |-> a.event_relayer,
     class_hash |-> a.class_hash,
     udc_address |-> a.udc_address,
     profile |-> a.profile,
     salt |-> a.salt,
     unique |-> ~a.no_unique]

\* the command lines explored: every text as the name with the default
\* addresses, and every combination of boundary-length texts, optional
\* addresses, salt and uniqueness
ArgsText ==
    [name : NameTexts,
     symbol : {TextOf(3, 1)},
     base_uri : {TextOf(MaxLen, 3)},
     royalty_receiver : {DefaultRoyaltyReceiver},
     royalty_fraction : {500},
     game_registry : {DefaultGameRegistry},
     event_relayer : {None, Some(RelayerAddress)},
     class_hash : {DefaultClassHash},
     udc_address : {DefaultUdcAddress},
     profile : {"default"},
     salt : {0},
     no_unique : BOOLEAN]

ArgsBoundary ==
    [name : BoundaryTexts,
     symbol : BoundaryTexts,
     base_uri : BoundaryTexts,
     royalty_receiver : {DefaultRoyaltyReceiver},
     royalty_fraction : {0, 500},
     game_registry : {DefaultGameRegistry, ""},
     event_relayer : {None, Some(""), Some(RelayerAddress)},
     class_hash : {DefaultClassHash},
     udc_address : {DefaultUdcAddress},
     profile : {"default"},
     salt : {0, 42},
     no_unique : BOOLEAN]

Args == ArgsText \cup ArgsBoundary

Init ==
    /\ args \in Args
    /\ config = DeploymentConfig(args)
    /\ pc = "main"
    /\ name_encoded = <<>>
    /\ symbol_encoded = <<>>
    /\ base_uri_encoded = <<>>
    /\ constructor_calldata = <<>>
    /\ calldata_len = 0
    /\ udc_calldata = <<>>
    /\ cmd = <<>>
    /\ deploy_result = <<FALSE, "", "">>
    /\ contract_address = None
    /\ deployment_file = <<>>

\* main, lines 388-390: the deployment failed
MainExit ==
    /\ pc = "deployed"
    /\ ~deploy_result[1]
    /\ pc' = "exit1"
    /\ UNCHANGED <<args, config, name_encoded, symbol_encoded, base_uri_encoded,
                   constructor_calldata, calldata_len, udc_calldata, cmd,
                   deploy_result, contract_address, deployment_file>>

\* what get_contract_address_from_tx can return: no address, an empty first
\* data field, or the deployed address
ReceiptAddresses == {None, Some(""), Some(DeployedAddress)}

\* main, lines 392-422: fetch the address, write LATEST_DEPLOYMENT.txt
MainFinish ==
    /\ pc = "deployed"
    /\ deploy_result[1]
    /\ \E a \in ReceiptAddresses :
        /\ contract_address' = a
        /\ deployment_file' =
            IF truthy(a)
            THEN <<a[1], deploy_result[2], config.class_hash, config.name, config.symbol>>
            ELSE deployment_file
    /\ pc' = "complete"
    /\ UNCHANGED <<args, config, name_encoded, symbol_encoded, base_uri_encoded,
                   constructor_calldata, calldata_len, udc_calldata, cmd, deploy_result>>

Next == DeployViaUdc \/ MainExit \/ MainFinish

Spec == Init /\ [][Next]_vars

Built == pc # "main"

(***************************************************************************)
(* Reading an encoding back                                                *)
(***************************************************************************)
\* the three texts of the configuration with the encodings computed for them
Encodings ==
    {<<config.name, name_encoded>>, <<config.symbol, symbol_encoded>>,
     <<config.base_uri, base_uri_encoded>>}

BytesOf(text) == utf8_encode(text)
FullWordCount(text) == Len(BytesOf(text)) \div 31
PendingLength(text) == Len(BytesOf(text)) % 31

DigitValue(ch) ==
    IF \E d \in 1..16 : HexDigits[d] = ch
    THEN (CHOOSE d \in 1..16 : HexDigits[d] = ch) - 1
    ELSE 0 - 1

\* value of a decimal token, -1 when it is not a decimal number
RECURSIVE ParseDecimal(_)
ParseDecimal(tok) ==
    IF Len(tok) = 0 THEN 0 - 1
    ELSE LET d == DigitValue(SubSeq(tok, Len(tok), Len(tok)))
         IN  IF d < 0 \/ d > 9 THEN 0 - 1
             ELSE IF Len(tok) = 1 THEN d
             ELSE LET rest == ParseDecimal(SubSeq(tok, 1, Len(tok) - 1))
                  IN  IF rest < 0 THEN 0 - 1 ELSE rest * 10 + d

\* the k low-order bytes, big-endian, of the number written by hexadecimal digits h
RECURSIVE HexToBytes(_, _)
HexToBytes(h, k) ==
    IF k = 0 THEN <<>>
    ELSE LET n == Len(h)
             lo == IF n >= 1 THEN DigitValue(SubSeq(h, n, n)) ELSE 0
             hi == IF n >= 2 THEN DigitValue(SubSeq(h, n - 1, n - 1)) ELSE 0
             rest == IF n >= 2 THEN SubSeq(h, 1, n - 2) ELSE ""
         IN  HexToBytes(rest, k - 1) \o <<hi * 16 + lo>>

\* the k low-order bytes, big-endian, of a natural number
RECURSIVE NatToBytes(_, _)
NatToBytes(v, k) ==
    IF k = 0 THEN <<>>
    ELSE NatToBytes(v \div 256, k - 1) \o <<v % 256>>

\* the k bytes a word token holds: a token is hexadecimal with the prefix 0x,
\* decimal otherwise
WordBytes(tok, k) ==
    IF Len(tok) >= 2 /\ SubSeq(tok, 1, 2) = "0x"
    THEN HexToBytes(SubSeq(tok, 3, Len(tok)), k)
    ELSE NatToBytes(ParseDecimal(tok), k)

RECURSIVE FullWordBytes(_, _)
FullWordBytes(enc, count) ==
    IF count = 0 THEN <<>>
    ELSE FullWordBytes(enc, count - 1) \o WordBytes(enc[count + 1], 31)

\* 31 bytes from each full word, then pending_length bytes from the pending word
Decode(enc) ==
    LET count == ParseDecimal(enc[1])
    IN  FullWordBytes(enc, count) \o WordBytes(enc[count + 2], ParseDecimal(enc[count + 3]))

WellFormed(enc) ==
    /\ Len(enc) >= 3
    /\ ParseDecimal(enc[1]) = Len(enc) - 3
    /\ ParseDecimal(enc[Len(enc)]) >= 0

(***************************************************************************)
(* Properties of encode_bytearray                                          *)
(***************************************************************************)
\* C1: decoding the list returned by encode_bytearray (31 bytes from each
\* full word in order, then pending_length bytes from the pending word)
\* gives back exactly the UTF-8 bytes of the text.
C1_RoundTrip ==
    Built => \A e \in Encodings : WellFormed(e[2]) /\ Decode(e[2]) = BytesOf(e[1])

C1_Witness ==
    /\ Built
    /\ Len(BytesOf(config.name)) = 64
    /\ BytesOf(config.name)[1] = 0
    /\ Len(name_encoded) = 5
    /\ Decode(name_encoded) = BytesOf(config.name)

\* C2: the list returned by encode_bytearray has exactly
\* (byte length div 31) + 3 tokens, never fewer than 3.
C2_SerializedLength ==
    Built => \A e \in Encodings :
        /\ Len(e[2]) = FullWordCount(e[1]) + 3
        /\ Len(e[2]) >= 3

C2_Witness ==
    /\ Built
    /\ Len(BytesOf(config.name)) = 62
    /\ Len(name_encoded) = 5
    /\ config.symbol = <<>>
    /\ Len(symbol_encoded) = 3

\* C3 as stated: with no leftover bytes the pending word is the token "0x0"
\* followed by the pending length "0"; encode("") is ["0", "0x0", "0"] and a
\* text of 31 bytes encodes to ["1", "0x" + hex, "0x0", "0"].
C3_PendingZeroIsHexToken ==
    Built => \A e \in Encodings :
        /\ e[1] = <<>> => e[2] = <<"0", "0x0", "0">>
        /\ Len(BytesOf(e[1])) = 31 =>
               e[2] = <<"1", "0x" \o bytes_hex(BytesOf(e[1])), "0x0", "0">>
        /\ PendingLength(e[1]) = 0 =>
               /\ Len(e[2]) >= 3
               /\ e[2][Len(e[2]) - 1] = "0x0"
               /\ e[2][Len(e[2])] = "0"

\* C3 amended: with no leftover bytes the pending word is the token "0"
\* followed by the pending length "0"; encode("") is ["0", "0", "0"] and a
\* text of 31 bytes encodes to ["1", "0x" + hex, "0", "0"].
C3_PendingZeroIsDecimalToken ==
    Built => \A e \in Encodings :
        /\ e[1] = <<>> => e[2] = <<"0", "0", "0">>
        /\ Len(BytesOf(e[1])) = 31 =>
               e[2] = <<"1", "0x" \o bytes_hex(BytesOf(e[1])), "0", "0">>
        /\ PendingLength(e[1]) = 0 =>
               /\ Len(e[2]) >= 3
               /\ e[2][Len(e[2]) - 1] = "0"
               /\ e[2][Len(e[2])] = "0"

C3_Witness ==
    /\ Built
    /\ config.symbol = <<>>
    /\ symbol_encoded = <<"0", "0", "0">>
    /\ Len(BytesOf(config.name)) = 31
    /\ Len(name_encoded) = 4
    /\ name_encoded[3] = "0"
    /\ name_encoded[4] = "0"

\* C4: for a text of n bytes encode_bytearray emits the decimal of n div 31,
\* then "0x" + hex of bytes [31*i, 31*i+31) for each i below n div 31 in
\* increasing i, then (when n mod 31 > 0) "0x" + hex of the trailing
\* n mod 31 bytes, and last the decimal of n mod 31; so
\* full_word_count*31 + pending_length = n with 0 <= pending_length <= 30,
\* and encode("hello") is ["0", "0x68656c6c6f", "5"].
C4_TokenLayout ==
    Built => \A e \in Encodings :
        LET b == BytesOf(e[1])
            n == Len(b)
            enc == e[2]
        IN  /\ Len(enc) = (n \div 31) + 3
            /\ enc[1] = str(n \div 31)
            /\ \A i \in 0..((n \div 31) - 1) :
                   enc[i + 2] = "0x" \o bytes_hex(SubSeq(b, 31 * i + 1, 31 * i + 31))
            /\ n % 31 > 0 =>
                   enc[Len(enc) - 1] = "0x" \o bytes_hex(SubSeq(b, n - (n % 31) + 1, n))
            /\ enc[Len(enc)] = str(n % 31)
            /\ ParseDecimal(enc[1]) * 31 + ParseDecimal(enc[Len(enc)]) = n
            /\ ParseDecimal(enc[Len(enc)]) \in 0..30
            /\ e[1] = Hello => enc = <<"0", "0x68656c6c6f", "5">>

C4_Witness ==
    /\ Built
    /\ config.name = Hello
    /\ name_encoded = <<"0", "0x68656c6c6f", "5">>
    /\ Len(BytesOf(config.base_uri)) > 62
    /\ PendingLength(config.base_uri) > 0

(***************************************************************************)
(* Properties of build_constructor_calldata                                *)
(***************************************************************************)
Present(o) == o # None /\ o[1] # ""
Absent(o) == o = None

\* serialization of an optional address: discriminant, then the address if any
OptionWords(o) == IF Present(o) THEN <<"0", o[1]>> ELSE <<"1">>

\* number of words before the optional fields
PrefixLen == Len(name_encoded) + Len(symbol_encoded) + Len(base_uri_encoded) + 2

\* the words of the two optional fields
OptionTail == SubSeq(constructor_calldata, PrefixLen + 1, Len(constructor_calldata))

\* the words of event_relayer: what follows the words of game_registry
RelayerWords ==
    SubSeq(OptionTail, (IF OptionTail[1] = "0" THEN 3 ELSE 2), Len(OptionTail))

\* C5: the returned list is exactly encode(name) ++ encode(symbol) ++
\* encode(base_uri) ++ [royalty_receiver] ++ [decimal royalty_fraction] ++
\* optional(game_registry) ++ optional(event_relayer), nothing else
\* between or after the fields.
C5_FieldOrder ==
    Built =>
        constructor_calldata =
            encode_bytearray(config.name) \o encode_bytearray(config.symbol)
            \o encode_bytearray(config.base_uri)
            \o <<args.royalty_receiver>> \o <<str(config.royalty_fraction)>>
            \o OptionWords(config.game_registry_address)
            \o OptionWords(config.event_relayer_address)

C5_Witness ==
    /\ Built
    /\ config.name # config.symbol
    /\ config.symbol # config.base_uri
    /\ Present(config.game_registry_address)
    /\ Present(config.event_relayer_address)
    /\ config.royalty_fraction = 500
    /\ constructor_calldata[Len(name_encoded) + 1] = symbol_encoded[1]
    /\ constructor_calldata[PrefixLen - 1] = DefaultRoyaltyReceiver
    /\ constructor_calldata[PrefixLen] = "500"
    /\ constructor_calldata[Len(constructor_calldata)] = RelayerAddress

\* C6: a present optional address is the discriminant "0" followed by the
\* address word, an absent one the single discriminant "1"; with both absent
\* the list ends in ["1", "1"], with game_registry present and event_relayer
\* absent it ends in ["0", registry address, "1"].
C6_OptionDiscriminant ==
    Built =>
        LET g == config.game_registry_address
            r == config.event_relayer_address
        IN  /\ Len(OptionTail) >= 2
            /\ Present(g) => OptionTail[1] = "0" /\ OptionTail[2] = g[1]
            /\ Absent(g) => OptionTail[1] = "1"
            /\ Present(r) => RelayerWords = <<"0", r[1]>>
            /\ Absent(r) => RelayerWords = <<"1">>
            /\ Absent(g) /\ Absent(r) => OptionTail = <<"1", "1">>
            /\ Present(g) /\ Absent(r) => OptionTail = <<"0", g[1], "1">>

C6_Witness ==
    /\ Built
    /\ config.game_registry_address = Some(DefaultGameRegistry)
    /\ config.event_relayer_address = None
    /\ OptionTail = <<"0", DefaultGameRegistry, "1">>

\* C7: the returned length is the number of words of the returned list, for
\* every combination of optional addresses and every text length; it is
\* (fwc(name)+3) + (fwc(symbol)+3) + (fwc(base_uri)+3) + 2
\* + (2 if game_registry present else 1) + (2 if event_relayer present else 1).
C7_LengthIsCount ==
    Built =>
        /\ calldata_len = Len(constructor_calldata)
        /\ calldata_len =
               (FullWordCount(config.name) + 3) + (FullWordCount(config.symbol) + 3)
               + (FullWordCount(config.base_uri) + 3) + 2
               + (IF Present(config.game_registry_address) THEN 2 ELSE 1)
               + (IF Present(config.event_relayer_address) THEN 2 ELSE 1)

C7_Witness ==
    /\ Built
    /\ Len(BytesOf(config.name)) = 62
    /\ Len(BytesOf(config.symbol)) = 30
    /\ Len(BytesOf(config.base_uri)) = 32
    /\ Present(config.game_registry_address)
    /\ Absent(config.event_relayer_address)
    /\ calldata_len = 17
    /\ Len(constructor_calldata) = 17

\* C10: presence of an optional address is decided by truthiness: an empty
\* address is serialized like an absent one (the single discriminant "1"), a
\* discriminant "0" of game_registry or event_relayer is always followed by a
\* non-empty address, and each field is decided independently of the other.
C10_EmptyAddressIsAbsent ==
    Built =>
        /\ Len(OptionTail) >= 2
        /\ (OptionTail[1] = "0") <=> (args.game_registry # "")
        /\ OptionTail[1] = "0" => OptionTail[2] = args.game_registry
        /\ OptionTail[1] # "0" => OptionTail[1] = "1"
        /\ Len(RelayerWords) >= 1
        /\ (RelayerWords[1] = "0") <=>
               (args.event_relayer # None /\ args.event_relayer # Some(""))
        /\ RelayerWords[1] = "0" =>
               /\ Len(RelayerWords) = 2
               /\ RelayerWords[2] # ""
               /\ RelayerWords = <<"0", args.event_relayer[1]>>
        /\ RelayerWords[1] # "0" => RelayerWords = <<"1">>

C10_Witness ==
    /\ Built
    /\ args.game_registry = ""
    /\ args.event_relayer = Some("")
    /\ config.event_relayer_address = Some("")
    /\ OptionTail = <<"1", "1">>

(***************************************************************************)
(* Properties of the envelope built by deploy_via_udc                      *)
(***************************************************************************)
\* C8: the envelope is the 4 header words [class_hash, salt, unique_flag,
\* constructor_calldata_length] followed by exactly the constructor calldata
\* in unchanged order; the 4th word is the decimal of the calldata length and
\* the envelope has length + 4 words.
C8_EnvelopeHeader ==
    Built =>
        /\ Len(udc_calldata) = Len(constructor_calldata) + 4
        /\ Len(udc_calldata) = calldata_len + 4
        /\ udc_calldata[1] = args.class_hash
        /\ udc_calldata[2] = str(args.salt)
        /\ udc_calldata[3] \in {"0", "1"}
        /\ udc_calldata[4] = str(Len(constructor_calldata))
        /\ ParseDecimal(udc_calldata[4]) = Len(udc_calldata) - 4
        /\ SubSeq(udc_calldata, 5, Len(udc_calldata)) = constructor_calldata

C8_Witness ==
    /\ Built
    /\ args.salt = 42
    /\ udc_calldata[2] = "42"
    /\ calldata_len = 17
    /\ udc_calldata[4] = "17"
    /\ Len(udc_calldata) = 21

\* the sequence without its i-th element
Without(seq, i) == SubSeq(seq, 1, i - 1) \o SubSeq(seq, i + 1, Len(seq))

\* C9: the 3rd header word is "1" exactly when the deployment is unique and
\* "0" otherwise, and the flag changes no other word of the envelope.
C9_UniqueFlag ==
    Built =>
        /\ Len(udc_calldata) >= 4
        /\ (udc_calldata[3] = "1") <=> ~args.no_unique
        /\ (udc_calldata[3] = "0") <=> args.no_unique
        /\ Without(udc_calldata, 3) =
               <<args.class_hash, str(args.salt), str(calldata_len)>>
               \o build_constructor_calldata([config EXCEPT !.unique = ~config.unique]).calldata

C9_Witness ==
    /\ Built
    /\ args.no_unique
    /\ ~config.unique
    /\ udc_calldata[3] = "0"
    /\ args.salt = 42

====
